---- MODULE Spec2Model ----
(***************************************************************************)
(* Model of the dead-frame remover: the library pipeline process_video of  *)
(* src-tauri/src/video_fixer.rs and the command line pipeline main of      *)
(* src-tauri/src/video-fixer.rs.                                           *)
(*                                                                         *)
(* Rust indices are 0-based, TLA+ sequences are 1-based: Rust's            *)
(* frames_vec[k] is frames_vec[k + 1] here, and the operators At0 / Idx0   *)
(* do the conversion where a formula speaks about Rust indices.            *)
(*                                                                         *)
(* Scores are f32 in the code; here a score is an integer number of        *)
(* hundredths (100 is 1.0, 95 is 0.95) and the failed comparison           *)
(* (Result::Err) is the value Err.                                         *)
(***************************************************************************)
EXTENDS Integers, Sequences, FiniteSets, TLC

(* ---- bounds of the model ---- *)
\* largest number of frames a decode yields, next to the three-batch case
MaxFrames == 12
\* largest height of the one-pixel-wide images that are scored
MaxRows == 3
\* width of the one-row images that are scored
MaxWidth == 257
\* number of threads that call get_ffmpeg_path concurrently
MaxCallers == 3
\* largest number of adjacent pairs whose comparison is not the default
\* "different pictures" result (they are identical, or fail to compare)
MaxSpecial == 2

(* ---- program constants ---- *)
\* video_fixer.rs:244  let batch_size = 10;
batch_size == 10
\* video_fixer.rs:259 / video-fixer.rs:188  score > 0.95  (hundredths)
Threshold == 95
\* score of two pictures with identical content (hundredths)
Identical == 100
\* score of two clearly different pictures (hundredths)
Different == 50
\* Result::Err of compare_images_ssim_crate
Err == -1

VARIABLES
    prog,         \* "lib": process_video (video_fixer.rs); "cli": main (video-fixer.rs)
    pc,           \* position of the job in its pipeline
    FFMPEG_PATH,  \* the process-wide cache: "None" or "Some"
    workspace,    \* the TempDir of generate_frames: "absent", "present", "removed"
    files,        \* frame numbers whose frame_%04d.png is in the workspace
    decode_status, \* the external decode: "not_run", "ok" or "failed" (exit status)
    ssim,         \* ssim[i]: what comparing frames_vec[i], frames_vec[i+1] returns
    frames_vec,   \* the collected frame files (as frame numbers)
    pending,      \* lib: chunks (0-based) whose worker has not appended yet
    order,        \* lib: chunks in the order their workers appended
    bad_frames,   \* the shared decision list
    failed,       \* frames whose remove_file returned Err
    encode_calls, \* how often the external encode was run
    output,       \* the <stem>_processed.mp4 file: "none", "partial", "complete"
    stderr,       \* kinds of messages written with eprintln!
    stdout        \* kinds of messages written with println!

\* the batch workers of process_video, step by step
VARIABLES
    w_pc,         \* w_pc[c]: worker of chunk c: "compare", "lock", "extend", "done"
    w_local,      \* w_local[c]: the local_results of the worker of chunk c
    w_pushed,     \* w_pushed[c]: how many of them extend has appended
    guard,        \* the workers holding the mutex of bad_frames
    origin        \* origin[j]: the <<chunk, position>> entry j of bad_frames came from

\* concurrent callers of get_ffmpeg_path
VARIABLES
    c_pc,         \* c_pc[t]: caller t: "idle", "lock", "locked", "extracting", "done"
    c_got,        \* c_got[t]: the path get_ffmpeg_path returned to t, "none" before
    path_guard,   \* the callers holding the mutex of FFMPEG_PATH
    staged,       \* how often extract_ffmpeg has succeeded in this process
    proc          \* the process: "running" or "exited"

\* one call of compare_images_ssim_crate
VARIABLES
    grey1,        \* the first image's luma rows: grey1[y + 1][x + 1] is pixel (x, y)
    grey2,        \* the second image's luma rows
    todo,         \* the row ranges <<lo, hi>> (lo <= y < hi) still to be summed
    cur,          \* cur[b]: the pixel loop of the worker that sums the range b
    sums,         \* sums[b]: the f32 sum of the row range b, once it is there
    score,        \* the returned f32 score, Zero before
    s_pc          \* "idle", "sum" or "done"

jobVars == <<prog, pc, FFMPEG_PATH, workspace, files, decode_status, ssim, frames_vec,
             pending, order, bad_frames, failed, encode_calls, output, stderr, stdout>>

workerVars == <<w_pc, w_local, w_pushed, guard, origin>>

pathVars == <<c_pc, c_got, path_guard, staged, proc>>

\* what the job pipeline does not touch
ssimVars == <<grey1, grey2, todo, cur, sums, score, s_pc>>

\* what the job pipeline does not touch
auxVars == <<workerVars, pathVars, ssimVars>>

vars == <<jobVars, auxVars>>

\* no step-by-step batch worker is modelled
WorkersIdle ==
    /\ w_pc = << >>
    /\ w_local = << >>
    /\ w_pushed = << >>
    /\ guard = {}
    /\ origin = << >>

\* no caller of get_ffmpeg_path is modelled
PathIdle ==
    /\ c_pc = << >>
    /\ c_got = << >>
    /\ path_guard = {}
    /\ staged = 0
    /\ proc = "running"

\* no call of compare_images_ssim_crate is modelled
SsimIdle ==
    /\ grey1 = << >>
    /\ grey2 = << >>
    /\ todo = {}
    /\ cur = << >>
    /\ sums = << >>
    /\ score = <<0, 0>>
    /\ s_pc = "idle"

(* ---- helpers ---- *)
Min(a, b) == IF a < b THEN a ELSE b

\* Rust's s[k]
At0(s, k) == s[k + 1]

\* the Rust indices of a sequence
Idx0(s) == 0 .. (Len(s) - 1)

\* n copies of FALSE
Falses(n) == [i \in 1 .. n |-> FALSE]

\* the frame counts a decode yields in the model: 0 .. MaxFrames (no batch,
\* one short batch, one full batch, a full and a short batch) and two full
\* batches followed by a batch of one frame
FrameCounts == (0 .. MaxFrames) \cup {2 * batch_size + 1}

\* the frame numbers ffmpeg writes for a video of n frames: frame_0001 .. frame_n
FrameNumbers(n) == 1 .. n

(* ---- comparison ---- *)
\* the results adjacent comparisons can have for n collected frames: all
\* pairs are Different except at most SpecialsFor(n), which are Identical or
\* Err
RECURSIVE UpTo(_, _)
\* the subsets of S with at most k elements
UpTo(S, k) ==
    IF k = 0 THEN {{}}
    ELSE LET smaller == UpTo(S, k - 1)
         IN  smaller \cup {T \cup {x} : T \in smaller, x \in S}

\* the number of special pairs taken for n frames: MaxSpecial up to
\* MaxFrames frames, one in the three-batch case
SpecialsFor(n) == IF n <= MaxFrames THEN MaxSpecial ELSE 1

SsimAssignments(n) ==
    IF n < 2 THEN {<< >>}
    ELSE UNION { { [i \in 1 .. (n - 1) |-> IF i \in S THEN g[i] ELSE Different] :
                     g \in [S -> {Identical, Err}] } :
                 S \in UpTo(1 .. (n - 1), SpecialsFor(n)) }

\* .unwrap_or(0.0)
UnwrapOr0(r) == IF r = Err THEN 0 ELSE r

\* score > 0.95
IsBad(r) == UnwrapOr0(r) > Threshold

(* ---- the batches of process_video ---- *)
\* the number of chunks par_chunks(batch_size) yields for n frames
NumChunks(n) == (n + batch_size - 1) \div batch_size

\* the Rust index of the first frame of chunk c
ChunkStart(c) == c * batch_size

\* chunk.len() of chunk c of n frames
ChunkLen(c, n) == Min(batch_size, n - ChunkStart(c))

\* the chunk a Rust frame index lies in
ChunkOf(k) == k \div batch_size

\* local_results that also compares the last frame of a full chunk with the
\* first frame of the next chunk
local_results_CrossBatch(c, n, sc) ==
    LET len   == ChunkLen(c, n)
        more  == ChunkStart(c) + len < n
        pairs == [i \in 1 .. (IF len > 0 THEN (IF more THEN len ELSE len - 1) ELSE 0) |->
                     IsBad(sc[ChunkStart(c) + i])]
    IN  IF len > 0 /\ len < batch_size THEN Append(pairs, FALSE) ELSE pairs

\* local_results with the entry of a short chunk's last frame set, not cleared
local_results_LastSet(c, n, sc) ==
    LET len   == ChunkLen(c, n)
        pairs == [i \in 1 .. (IF len > 0 THEN len - 1 ELSE 0) |->
                     IsBad(sc[ChunkStart(c) + i])]
    IN  IF len > 0 /\ len < batch_size THEN Append(pairs, TRUE) ELSE pairs

\* local_results of one worker (lines 250-265): one entry for every pair
\* (chunk[i], chunk[i + 1]), i in 0 .. chunk.len().saturating_sub(1), and
\* one more false when the chunk is shorter than batch_size
local_results(c, n, sc) ==
    LET len   == ChunkLen(c, n)
        pairs == [i \in 1 .. (IF len > 0 THEN len - 1 ELSE 0) |->
                     IsBad(sc[ChunkStart(c) + i])]
    IN  IF len > 0 /\ len < batch_size THEN Append(pairs, FALSE) ELSE pairs

\* PadAndPush without the push of line 278
PadAndPush_NoLast(bf, n) ==
    IF Len(bf) < n - 1 THEN bf \o Falses(n - 1 - Len(bf)) ELSE bf

\* lines 274-278, for n >= 1: pad to n - 1 entries, then one more false
PadAndPush(bf, n) ==
    LET padded == IF Len(bf) < n - 1 THEN bf \o Falses(n - 1 - Len(bf)) ELSE bf
    IN  Append(padded, FALSE)

\* video-fixer.rs:180-202: one task per adjacent pair, the handles awaited
\* in spawn order, then one more false
cli_bad_frames(n, sc) == Append([i \in 1 .. (n - 1) |-> IsBad(sc[i])], FALSE)

\* lines 281-287: the frames whose remove_file is called
Marked(fv, bf) == {At0(fv, k) : k \in {j \in Idx0(fv) : At0(bf, j)}}

(* ---- collect_files ---- *)
\* the i-th smallest element of a set of numbers
Nth(S, i) == CHOOSE x \in S : Cardinality({y \in S : y < x}) = i - 1

\* the orders in which the directory walk can hand over the entries S; the
\* walk (read_dir + par_bridge) fixes no order. The model takes the
\* ascending order, the descending order, and the ascending order with its
\* first two entries exchanged (an order in which neighbours need not be
\* consecutive frames).
WalkOrders(S) ==
    LET n   == Cardinality(S)
        asc == [i \in 1 .. n |-> Nth(S, i)]
    IN  {asc}
          \cup {[i \in 1 .. n |-> Nth(S, n + 1 - i)]}
          \cup {[i \in 1 .. n |-> IF n >= 2 /\ i <= 2 THEN asc[3 - i] ELSE asc[i]]}

\* collect_files on the workspace directory: empty when the directory does
\* not exist; else every entry in walk order, nothing being sorted. The
\* workspace holds only the frame_%04d.png files of the decode, which are
\* regular files with extension png, so the filter of lines 84-92 keeps
\* each entry.
collect_files(ws, walk) ==
    IF ws # "present" THEN << >> ELSE walk

(* ---- initial state ---- *)
Init ==
    /\ prog \in {"lib", "cli"}
    /\ pc = "start"
    /\ FFMPEG_PATH = "None"
    /\ workspace = "absent"
    /\ files = {}
    /\ decode_status = "not_run"
    /\ ssim = << >>
    /\ frames_vec = << >>
    /\ pending = {}
    /\ order = << >>
    /\ bad_frames = << >>
    /\ failed = {}
    /\ encode_calls = 0
    /\ output = "none"
    /\ stderr = {}
    /\ stdout = {}
    /\ WorkersIdle
    /\ PathIdle
    /\ SsimIdle

(* ---- generate_frames ---- *)
\* tempdir() succeeds
TempDirCreated ==
    /\ pc = "start"
    /\ workspace' = "present"
    /\ pc' = "resolve"
    /\ UNCHANGED <<prog, FFMPEG_PATH, files, decode_status, ssim, frames_vec, pending,
                   order, bad_frames, failed, encode_calls, output, stderr, stdout>>
    /\ UNCHANGED auxVars

\* tempdir() fails: .expect panics, nothing was created
TempDirFails ==
    /\ pc = "start"
    /\ pc' = "panicked"
    /\ UNCHANGED <<prog, FFMPEG_PATH, workspace, files, decode_status, ssim, frames_vec,
                   pending, order, bad_frames, failed, encode_calls, output, stderr,
                   stdout>>
    /\ UNCHANGED auxVars

\* get_ffmpeg_path: the cache is empty and extract_ffmpeg succeeds, or the
\* cache is filled already
GetFfmpegPathOk ==
    /\ pc = "resolve"
    /\ FFMPEG_PATH' = "Some"
    /\ pc' = "decode"
    /\ UNCHANGED <<prog, workspace, files, decode_status, ssim, frames_vec, pending,
                   order, bad_frames, failed, encode_calls, output, stderr, stdout>>
    /\ UNCHANGED auxVars

\* get_ffmpeg_path: the cache is empty and extract_ffmpeg fails:
\* std::process::exit(1) ends the process at once, no destructor runs, so
\* the TempDir of the caller is not dropped
GetFfmpegPathExit ==
    /\ pc = "resolve"
    /\ FFMPEG_PATH = "None"
    /\ stderr' = stderr \cup {"Failed to extract ffmpeg"}
    /\ pc' = "exited"
    /\ UNCHANGED <<prog, FFMPEG_PATH, workspace, files, decode_status, ssim, frames_vec,
                   pending, order, bad_frames, failed, encode_calls, output, stdout>>
    /\ UNCHANGED auxVars

\* the decode process runs: on success it writes the n frames of the video,
\* on failure (exit status ignored by the code) it writes none
Decode ==
    /\ pc = "decode"
    /\ \E n \in FrameCounts, ok \in BOOLEAN :
         /\ decode_status' = IF ok THEN "ok" ELSE "failed"
         /\ files' = IF ok THEN FrameNumbers(n) ELSE {}
         /\ ssim' \in SsimAssignments(IF ok THEN n ELSE 0)
    /\ pc' = "collect"
    /\ UNCHANGED <<prog, FFMPEG_PATH, workspace, frames_vec, pending, order,
                   bad_frames, failed, encode_calls, output, stderr, stdout>>
    /\ UNCHANGED auxVars

\* the decode process cannot be started: .expect panics, the unwinding
\* drops the TempDir
DecodeSpawnFails ==
    /\ pc = "decode"
    /\ workspace' = "removed"
    /\ pc' = "panicked"
    /\ UNCHANGED <<prog, FFMPEG_PATH, files, decode_status, ssim, frames_vec, pending,
                   order, bad_frames, failed, encode_calls, output, stderr, stdout>>
    /\ UNCHANGED auxVars

(* ---- collect ---- *)
CollectFiles ==
    /\ pc = "collect"
    /\ \E walk \in WalkOrders(files) :
         frames_vec' = collect_files(workspace, walk)
    /\ pending' = IF prog = "lib" THEN 0 .. (NumChunks(Cardinality(files)) - 1) ELSE {}
    /\ pc' = "score"
    /\ UNCHANGED <<prog, FFMPEG_PATH, workspace, files, decode_status, ssim, order,
                   bad_frames, failed, encode_calls, output, stderr, stdout>>
    /\ UNCHANGED auxVars

(* ---- scoring, process_video ---- *)
\* a worker that removes the files of the frames it marks as soon as it has
\* compared its chunk
BatchAppend_Removing(c) ==
    /\ prog = "lib"
    /\ pc = "score"
    /\ c \in pending
    /\ bad_frames' = bad_frames \o local_results(c, Len(frames_vec), ssim)
    /\ pending' = pending \ {c}
    /\ order' = Append(order, c)
    /\ files' = files \ {At0(frames_vec, ChunkStart(c) + i - 1) :
                           i \in {j \in 1 .. Len(local_results(c, Len(frames_vec), ssim)) :
                                    local_results(c, Len(frames_vec), ssim)[j]}}
    /\ UNCHANGED <<prog, pc, FFMPEG_PATH, workspace, decode_status, ssim,
                   frames_vec, failed, encode_calls, output, stderr, stdout>>
    /\ UNCHANGED auxVars


\* one worker of par_chunks(..).for_each: it computes its local_results and
\* appends them under the mutex; the workers append in any order
BatchAppend(c) ==
    /\ prog = "lib"
    /\ pc = "score"
    /\ c \in pending
    /\ bad_frames' = bad_frames \o local_results(c, Len(frames_vec), ssim)
    /\ pending' = pending \ {c}
    /\ order' = Append(order, c)
    /\ UNCHANGED <<prog, pc, FFMPEG_PATH, workspace, files, decode_status, ssim,
                   frames_vec, failed, encode_calls, output, stderr, stdout>>
    /\ UNCHANGED auxVars

\* lines 272-278 once for_each has returned, at least one frame
Finalize ==
    /\ prog = "lib"
    /\ pc = "score"
    /\ pending = {}
    /\ Len(frames_vec) >= 1
    /\ bad_frames' = PadAndPush(bad_frames, Len(frames_vec))
    /\ pc' = "delete"
    /\ UNCHANGED <<prog, FFMPEG_PATH, workspace, files, decode_status, ssim, frames_vec,
                   pending, order, failed, encode_calls, output, stderr, stdout>>
    /\ UNCHANGED auxVars

\* line 274 with no frame, overflow checks on: frames_vec.len() - 1 panics,
\* the unwinding drops the TempDir
EmptyPanics ==
    /\ prog = "lib"
    /\ pc = "score"
    /\ pending = {}
    /\ Len(frames_vec) = 0
    /\ workspace' = "removed"
    /\ pc' = "panicked"
    /\ UNCHANGED <<prog, FFMPEG_PATH, files, decode_status, ssim, frames_vec, pending,
                   order, bad_frames, failed, encode_calls, output, stderr, stdout>>
    /\ UNCHANGED auxVars

\* line 274 with no frame, overflow checks off: frames_vec.len() - 1 wraps to
\* usize::MAX and the loop pushes until the allocation fails, which aborts the
\* process; no destructor runs
EmptyWraps ==
    /\ prog = "lib"
    /\ pc = "score"
    /\ pending = {}
    /\ Len(frames_vec) = 0
    /\ pc' = "aborted"
    /\ UNCHANGED <<prog, FFMPEG_PATH, workspace, files, decode_status, ssim, frames_vec,
                   pending, order, bad_frames, failed, encode_calls, output, stderr,
                   stdout>>
    /\ UNCHANGED auxVars

(* ---- scoring, main ---- *)
\* video-fixer.rs:180-202, at least one frame
CliScore ==
    /\ prog = "cli"
    /\ pc = "score"
    /\ Len(frames_vec) >= 1
    /\ bad_frames' = cli_bad_frames(Len(frames_vec), ssim)
    /\ pc' = "delete"
    /\ UNCHANGED <<prog, FFMPEG_PATH, workspace, files, decode_status, ssim, frames_vec,
                   pending, order, failed, encode_calls, output, stderr, stdout>>
    /\ UNCHANGED auxVars

\* video-fixer.rs:180 with no frame: frames_vec.len() - 1 panics with
\* overflow checks on; with them off the range is 0 .. usize::MAX and
\* frames_vec[0] panics. Either way main unwinds and drops the TempDir
CliEmptyPanics ==
    /\ prog = "cli"
    /\ pc = "score"
    /\ Len(frames_vec) = 0
    /\ workspace' = "removed"
    /\ pc' = "panicked"
    /\ UNCHANGED <<prog, FFMPEG_PATH, files, decode_status, ssim, frames_vec, pending,
                   order, bad_frames, failed, encode_calls, output, stderr, stdout>>
    /\ UNCHANGED auxVars

(* ---- deletion ---- *)
\* a deletion loop that gives up at a removal that fails: no marked frame is
\* removed and the job ends
RemoveBadFrames_GivesUp ==
    /\ pc = "delete"
    /\ \E fail \in SUBSET Marked(frames_vec, bad_frames) :
         /\ failed' = fail
         /\ files' = IF fail = {} THEN files \ Marked(frames_vec, bad_frames) ELSE files
         /\ stderr' = IF fail = {} THEN stderr
                      ELSE stderr \cup {"Failed to remove file"}
         /\ stdout' = IF prog = "cli" /\ Marked(frames_vec, bad_frames) # fail
                      THEN stdout \cup {"removed dead frame"} ELSE stdout
         /\ pc' = IF fail = {} THEN "encode" ELSE "panicked"
         /\ workspace' = IF fail = {} THEN workspace ELSE "removed"
    /\ UNCHANGED <<prog, FFMPEG_PATH, decode_status, ssim, frames_vec, pending,
                   order, bad_frames, encode_calls, output>>
    /\ UNCHANGED auxVars


\* the loop of lines 281-287 (video-fixer.rs:204-211): remove_file on every
\* marked frame; a removal that fails is logged and the loop goes on
RemoveBadFrames ==
    /\ pc = "delete"
    /\ \E fail \in SUBSET Marked(frames_vec, bad_frames) :
         /\ failed' = fail
         /\ files' = files \ (Marked(frames_vec, bad_frames) \ fail)
         /\ stderr' = IF fail = {} THEN stderr
                      ELSE stderr \cup {"Failed to remove file"}
         /\ stdout' = IF prog = "cli" /\ Marked(frames_vec, bad_frames) # fail
                      THEN stdout \cup {"removed dead frame"} ELSE stdout
    /\ pc' = "encode"
    /\ UNCHANGED <<prog, FFMPEG_PATH, workspace, decode_status, ssim, frames_vec, pending,
                   order, bad_frames, encode_calls, output>>
    /\ UNCHANGED auxVars

(* ---- stitch_frames_into_video ---- *)
\* what the encode process leaves behind: it exits with success and a
\* complete file, or it fails having written nothing or only a part
EncodeResults == {"complete", "none", "partial"}

\* the encode process runs to its end; a failure status is only logged
StitchFramesIntoVideo ==
    /\ pc = "encode"
    /\ FFMPEG_PATH = "Some"
    /\ \E res \in EncodeResults :
         /\ output' = res
         /\ stderr' = IF res = "complete" THEN stderr
                      ELSE stderr \cup {"FFmpeg failed to stitch video"}
    /\ encode_calls' = encode_calls + 1
    /\ pc' = "encoded"
    /\ UNCHANGED <<prog, FFMPEG_PATH, workspace, files, decode_status, ssim, frames_vec,
                   pending, order, bad_frames, failed, stdout>>
    /\ UNCHANGED auxVars

\* the encode process cannot be started: .expect panics, the unwinding drops
\* the TempDir
StitchSpawnFails ==
    /\ pc = "encode"
    /\ FFMPEG_PATH = "Some"
    /\ workspace' = "removed"
    /\ pc' = "panicked"
    /\ UNCHANGED <<prog, FFMPEG_PATH, files, decode_status, ssim, frames_vec, pending,
                   order, bad_frames, failed, encode_calls, output, stderr, stdout>>
    /\ UNCHANGED auxVars

\* the end of process_video / main: main prints the output path, then the
\* TempDir goes out of scope
Return ==
    /\ pc = "encoded"
    /\ stdout' = IF prog = "cli" THEN stdout \cup {"Video created"} ELSE stdout
    /\ workspace' = "removed"
    /\ pc' = "done"
    /\ UNCHANGED <<prog, FFMPEG_PATH, files, decode_status, ssim, frames_vec, pending,
                   order, bad_frames, failed, encode_calls, output, stderr>>
    /\ UNCHANGED auxVars

Next ==
    \/ TempDirCreated
    \/ TempDirFails
    \/ GetFfmpegPathOk
    \/ GetFfmpegPathExit
    \/ Decode
    \/ DecodeSpawnFails
    \/ CollectFiles
    \/ \E c \in 0 .. (NumChunks(2 * batch_size + 1) - 1) : BatchAppend(c)
    \/ Finalize
    \/ EmptyPanics
    \/ EmptyWraps
    \/ CliScore
    \/ CliEmptyPanics
    \/ RemoveBadFrames
    \/ StitchFramesIntoVideo
    \/ StitchSpawnFails
    \/ Return

Spec == Init /\ [][Next]_vars

\* the job has ended
Terminal == pc \in {"done", "panicked", "exited", "aborted"}

(* ---- vocabulary of the properties ---- *)
\* the number of collected frames
NFrames == Len(frames_vec)

\* the deletion loop has run
AfterDelete == pc \in {"encode", "encoded", "done"}

\* the file of the frame at Rust index k is gone
Deleted(k) == At0(frames_vec, k) \notin files

\* frames k and k + 1 lie in one batch
SameBatch(k) == k + 1 < NFrames /\ ChunkOf(k) = ChunkOf(k + 1)

\* the frame at Rust index k is the earlier frame of a pair inside one batch
\* that scores above the threshold
DuplicateInBatch(k) == SameBatch(k) /\ IsBad(ssim[k + 1])

\* exactly one adjacent pair of the sequence is identical, all others differ
OneIdenticalPair ==
    /\ Cardinality({i \in DOMAIN ssim : ssim[i] = Identical}) = 1
    /\ \A i \in DOMAIN ssim : ssim[i] \in {Identical, Different}

\* the external encode ran and did not succeed
EncodeFailed == encode_calls > 0 /\ output # "complete"

(* ---- C1 ---- *)
\* C1: after the deletion loop of process_video (no removal having failed)
\* a frame's file is gone exactly if the frame is the earlier frame of a
\* pair inside one batch scoring above 0.95; with exactly one identical
\* pair in the sequence N - 1 frames are left for the encode.
C1_DeletedIffDuplicateInBatch ==
    (prog = "lib" /\ AfterDelete /\ failed = {}) =>
        /\ \A k \in Idx0(frames_vec) : Deleted(k) <=> DuplicateInBatch(k)
        /\ OneIdenticalPair => Cardinality(files) = NFrames - 1

(* ---- C2 ---- *)
\* C2: once all batch workers of process_video have finished and the list
\* is completed, entry k of bad_frames is the decision of frame k.
C2_DecisionsInFrameOrder ==
    (prog = "lib" /\ pc = "delete") =>
        \A k \in Idx0(frames_vec) : At0(bad_frames, k) = DuplicateInBatch(k)

(* ---- C3 ---- *)
\* C3: the last frame of the collected sequence (Rust index N - 1) is never
\* deleted: its entry of the decision list is false and its file stays.
C3_LastFrameKept ==
    NFrames >= 1 =>
        /\ frames_vec[NFrames] \in files
        /\ pc = "delete" => ~ bad_frames[NFrames]

\* process_video has deleted a frame of a sequence whose last pair is
\* identical, and the last frame is still there
C3_Witness ==
    /\ prog = "lib"
    /\ pc = "encode"
    /\ NFrames >= 2
    /\ ssim[NFrames - 1] = Identical
    /\ Cardinality(files) < NFrames
    /\ frames_vec[NFrames] \in files

(* ---- C4 ---- *)
\* C4: when process_video reaches the deletion loop the decision list has
\* exactly one entry per collected frame.
C4_OneDecisionPerFrame ==
    (prog = "lib" /\ pc = "delete") => Len(bad_frames) = NFrames

(* ---- C5 ---- *)
\* C5: however a job ends, the workspace directory of generate_frames is
\* not left on disk.
C5_WorkspaceReleasedAtEnd ==
    Terminal => workspace # "present"

(* ---- C6 ---- *)
\* C6: a job whose decode ran and left no frame ends failed: the encode was
\* never invoked, there is no output file, the workspace is released and the
\* job ended by the reported failure.
C6_EmptyDecodeFailsCleanly ==
    (Terminal /\ decode_status # "not_run" /\ NFrames = 0) =>
        /\ pc = "panicked"
        /\ encode_calls = 0
        /\ output = "none"
        /\ workspace = "removed"

(* ---- C7 ---- *)
\* C7: when the encode process exits with failure the caller goes on, the
\* failure is logged, and the output path is not printed as a success.
C7_EncodeFailureNotReportedAsSuccess ==
    (Terminal /\ EncodeFailed) =>
        /\ pc = "done"
        /\ "FFmpeg failed to stitch video" \in stderr
        /\ "Video created" \notin stdout

(* ---- C8 ---- *)
\* C8: at the end of a job the output video is complete or absent, never a
\* partially written file.
C8_NoPartialOutput ==
    Terminal => output \in {"none", "complete"}

(* ---- C9 ---- *)
\* C9: a pair inside one batch whose comparison fails scores 0.0, its
\* earlier frame is not marked by it and is not deleted by process_video.
C9_FailedComparisonKeepsFrame ==
    (prog = "lib" /\ AfterDelete) =>
        \A k \in Idx0(frames_vec) :
            (SameBatch(k) /\ ssim[k + 1] = Err) =>
                /\ UnwrapOr0(ssim[k + 1]) = 0
                /\ ~ DuplicateInBatch(k)
                /\ ~ Deleted(k)

(* ---- C10 ---- *)
\* C10: collect_files returns every frame file of the directory exactly
\* once, in strictly ascending order of the number in the file name.
C10_CollectedInNumericOrder ==
    pc \in {"score", "delete"} =>
        /\ Len(frames_vec) = Cardinality(files)
        /\ {frames_vec[i] : i \in DOMAIN frames_vec} = files
        /\ \A i \in 1 .. (Len(frames_vec) - 1) : frames_vec[i] < frames_vec[i + 1]


(* ---- C11 ---- *)
\* two full batches and one more frame, and only the pair at Rust positions
\* 9 and 10 (the end of the first batch, the start of the second) identical
BoundaryPairOnly ==
    /\ NFrames = 2 * batch_size + 1
    /\ \A i \in DOMAIN ssim :
         ssim[i] = (IF i = batch_size THEN Identical ELSE Different)

\* C11: with 21 frames of which only the pair straddling the first batch
\* boundary is identical, process_video marks and deletes no frame, in
\* whatever order the batches append.
C11_BoundaryPairNotScored ==
    (prog = "lib" /\ BoundaryPairOnly /\ (pc = "delete" \/ AfterDelete)) =>
        /\ \A k \in Idx0(frames_vec) : ~ At0(bad_frames, k)
        /\ \A k \in Idx0(frames_vec) : ~ Deleted(k)

\* the deletion loop has run on such a sequence after the batches appended
\* in reverse order
C11_Witness ==
    /\ prog = "lib"
    /\ BoundaryPairOnly
    /\ pc = "encode"
    /\ order = <<2, 1, 0>>
    /\ Cardinality(files) = 2 * batch_size + 1

(* ---- C12 ---- *)
\* no two frames that are consecutive by frame number and were compared
\* score above the threshold
NoTemporalDuplicate ==
    \A i \in DOMAIN ssim :
        (frames_vec[i] - frames_vec[i + 1] \in {-1, 1}) => ~ IsBad(ssim[i])

\* C12: when no two temporally adjacent frames score above the threshold,
\* process_video deletes nothing: the encode sees as many frame files as
\* were extracted.
C12_NoSpuriousDrop ==
    (prog = "lib" /\ AfterDelete /\ NoTemporalDuplicate) =>
        Cardinality(files) = NFrames

(* ---- C16 ---- *)
\* the frame numbers of the collected sequence
Collected == {frames_vec[i] : i \in DOMAIN frames_vec}

\* C16: the stages run in the order extract, collect, score, delete, encode:
\* nothing is collected before the decode ran, nothing is scored before the
\* collection, no frame file is gone while a batch worker has not finished
\* or the decision list is not complete, and the encode runs at most once
\* and only after the removal of every marked frame was attempted.
C16_StagesInOrder ==
    /\ encode_calls <= 1
    /\ frames_vec # << >> => decode_status # "not_run"
    /\ bad_frames # << >> => frames_vec # << >>
    /\ (pending # {} \/ pc \in {"score", "delete"}) => files = Collected
    /\ files # Collected => (frames_vec = << >> \/ Len(bad_frames) >= NFrames)
    /\ encode_calls > 0 =>
         /\ pending = {}
         /\ \A f \in Marked(frames_vec, bad_frames) : f \notin files \/ f \in failed

\* the encode has run after a frame was deleted, the batches having
\* appended out of index order
C16_Witness ==
    /\ prog = "lib"
    /\ pc = "encoded"
    /\ encode_calls = 1
    /\ order = <<1, 0>>
    /\ files # Collected

(* ---- C17 ---- *)
\* C17: when the removal of a marked frame fails the failure is logged, the
\* file of that frame stays, every other marked frame is removed all the
\* same, and the job goes on to the encode.
C17_FailedRemovalTolerated ==
    failed # {} =>
        /\ "Failed to remove file" \in stderr
        /\ failed \subseteq files
        /\ \A f \in Marked(frames_vec, bad_frames) \ failed : f \notin files
        /\ \/ pc \in {"encode", "encoded", "done"}
           \/ pc = "panicked" /\ encode_calls = 0 /\ workspace = "removed"

\* the encode has run although one of two marked frames could not be removed
C17_Witness ==
    /\ pc = "encoded"
    /\ encode_calls = 1
    /\ Cardinality(failed) = 1
    /\ Cardinality(Marked(frames_vec, bad_frames)) = 2
    /\ Cardinality(files) = NFrames - 1

(* ---- C19 ---- *)
\* C19: the decision list process_video indexes in its deletion loop has at
\* least one entry per collected frame, so bad_frames[index] is in bounds.
C19_IndexInBounds ==
    (prog = "lib" /\ pc = "delete") =>
        /\ Len(bad_frames) >= NFrames
        /\ \A k \in Idx0(frames_vec) : k + 1 \in DOMAIN bad_frames

\* the deletion loop is reached with batches of 10, 10 and 1 frames
C19_Witness ==
    /\ prog = "lib"
    /\ pc = "delete"
    /\ NFrames = 2 * batch_size + 1
    /\ Len(order) = 3


(***************************************************************************)
(* The batch workers of process_video step by step (lines 248-270): each   *)
(* worker compares the frames of its chunk, locks the mutex of bad_frames, *)
(* extends the list entry by entry and unlocks when its guard is dropped.  *)
(***************************************************************************)
\* the chunks of the collected frames
Chunks == 0 .. (NumChunks(Len(frames_vec)) - 1)

\* a mutex that lets every caller in
CanLock_Always(holders) == TRUE

\* Mutex::lock (line 268) returns when nobody holds the mutex
CanLock(holders) == holders = {}

\* the state in which par_chunks(..).for_each starts: n >= 1 frames are
\* collected, no worker has run
WorkersInit ==
    /\ prog = "lib"
    /\ pc = "score"
    /\ FFMPEG_PATH = "Some"
    /\ workspace = "present"
    /\ decode_status = "ok"
    /\ \E n \in FrameCounts \ {0} :
         /\ files = FrameNumbers(n)
         /\ frames_vec \in WalkOrders(FrameNumbers(n))
         /\ ssim \in SsimAssignments(n)
         /\ pending = 0 .. (NumChunks(n) - 1)
         /\ w_pc = [c \in 0 .. (NumChunks(n) - 1) |-> "compare"]
         /\ w_local = [c \in 0 .. (NumChunks(n) - 1) |-> << >>]
         /\ w_pushed = [c \in 0 .. (NumChunks(n) - 1) |-> 0]
    /\ order = << >>
    /\ bad_frames = << >>
    /\ failed = {}
    /\ encode_calls = 0
    /\ output = "none"
    /\ stderr = {}
    /\ stdout = {}
    /\ guard = {}
    /\ origin = << >>
    /\ PathIdle
    /\ SsimIdle

\* lines 250-265: the worker of chunk c fills its local_results; it only
\* reads frame files, which nothing writes while the workers run
WCompare(c) ==
    /\ c \in Chunks
    /\ w_pc[c] = "compare"
    /\ w_local' = [w_local EXCEPT ![c] = local_results(c, Len(frames_vec), ssim)]
    /\ w_pc' = [w_pc EXCEPT ![c] = "lock"]
    /\ UNCHANGED <<jobVars, w_pushed, guard, origin, pathVars, ssimVars>>

\* line 268: bad_frames.lock()
WLock(c) ==
    /\ c \in Chunks
    /\ w_pc[c] = "lock"
    /\ CanLock(guard)
    /\ guard' = guard \cup {c}
    /\ w_pc' = [w_pc EXCEPT ![c] = "extend"]
    /\ UNCHANGED <<jobVars, w_local, w_pushed, origin, pathVars, ssimVars>>

\* line 269: extend appends the next entry of local_results
WPush(c) ==
    /\ c \in Chunks
    /\ w_pc[c] = "extend"
    /\ w_pushed[c] < Len(w_local[c])
    /\ bad_frames' = Append(bad_frames, w_local[c][w_pushed[c] + 1])
    /\ origin' = Append(origin, <<c, w_pushed[c] + 1>>)
    /\ w_pushed' = [w_pushed EXCEPT ![c] = w_pushed[c] + 1]
    /\ UNCHANGED <<prog, pc, FFMPEG_PATH, workspace, files, decode_status, ssim,
                   frames_vec, pending, order, failed, encode_calls, output, stderr,
                   stdout>>
    /\ UNCHANGED <<w_pc, w_local, guard, pathVars, ssimVars>>

\* line 270: the closure ends, the guard is dropped, the worker is done
WUnlock(c) ==
    /\ c \in Chunks
    /\ w_pc[c] = "extend"
    /\ w_pushed[c] = Len(w_local[c])
    /\ guard' = guard \ {c}
    /\ w_pc' = [w_pc EXCEPT ![c] = "done"]
    /\ pending' = pending \ {c}
    /\ order' = Append(order, c)
    /\ UNCHANGED <<prog, pc, FFMPEG_PATH, workspace, files, decode_status, ssim,
                   frames_vec, bad_frames, failed, encode_calls, output, stderr,
                   stdout>>
    /\ UNCHANGED <<w_local, w_pushed, origin, pathVars, ssimVars>>

WorkersNext ==
    \/ \E c \in 0 .. (NumChunks(2 * batch_size + 1) - 1) : WCompare(c)
    \/ \E c \in 0 .. (NumChunks(2 * batch_size + 1) - 1) : WLock(c)
    \/ \E c \in 0 .. (NumChunks(2 * batch_size + 1) - 1) : WPush(c)
    \/ \E c \in 0 .. (NumChunks(2 * batch_size + 1) - 1) : WUnlock(c)

SpecWorkers == WorkersInit /\ [][WorkersNext]_vars

\* every batch worker has finished
WorkersDone == \A c \in DOMAIN w_pc : w_pc[c] = "done"

(* ---- C18 ---- *)
\* C18: once all batch workers have finished, bad_frames holds the results
\* of every batch exactly once, the results of one batch form one contiguous
\* block, and inside a block they are in the batch's frame order.
C18_BlocksCompleteAndContiguous ==
    (DOMAIN w_pc # {} /\ WorkersDone) =>
        /\ Len(origin) = Len(bad_frames)
        /\ \A c \in Chunks :
             \A i \in 1 .. Len(local_results(c, Len(frames_vec), ssim)) :
                Cardinality({j \in DOMAIN origin : origin[j] = <<c, i>>}) = 1
        /\ \A j \in DOMAIN origin :
             /\ origin[j][1] \in Chunks
             /\ origin[j][2] \in 1 .. Len(local_results(origin[j][1], Len(frames_vec), ssim))
             /\ bad_frames[j] =
                  local_results(origin[j][1], Len(frames_vec), ssim)[origin[j][2]]
        /\ origin # << >> => origin[1][2] = 1
        /\ \A j \in 1 .. (Len(origin) - 1) :
             IF origin[j][1] = origin[j + 1][1]
             THEN origin[j + 1][2] = origin[j][2] + 1
             ELSE /\ origin[j + 1][2] = 1
                  /\ origin[j][2] =
                       Len(local_results(origin[j][1], Len(frames_vec), ssim))

\* three workers have finished, the last batch first, and a result is set
C18_Witness ==
    /\ DOMAIN w_pc = 0 .. 2
    /\ WorkersDone
    /\ order = <<2, 0, 1>>
    /\ \E j \in DOMAIN bad_frames : bad_frames[j]


(* ---- C14 ---- *)
\* C14: two identical images score the maximum, which is above the
\* threshold, so once the decision list of process_video is complete the
\* entry of the earlier frame of every identical pair inside one batch
\* (the earlier frame not being the last frame) says drop.
C14_IdenticalPairMarked ==
    (prog = "lib" /\ pc = "delete") =>
        \A k \in Idx0(frames_vec) :
            (SameBatch(k) /\ ssim[k + 1] = Identical) =>
                (IsBad(Identical) /\ At0(bad_frames, k))


(***************************************************************************)
(* Concurrent callers of get_ffmpeg_path (lines 26-61), step by step.      *)
(***************************************************************************)
Callers == 1 .. MaxCallers

\* what extract_ffmpeg can return: env::temp_dir().join("ffmpeg"), the
\* temporary directory being read from the environment at each call
TempPaths == {"/tmp/ffmpeg", "/var/tmp/ffmpeg"}

\* a mutex that lets every caller in
PathCanLock_Always(holders) == TRUE

\* FFMPEG_PATH.lock() (line 50) returns when nobody holds the mutex
PathCanLock(holders) == holders = {}

\* a fresh process: the cache is empty, no thread has called yet
PathInit ==
    /\ prog = "lib"
    /\ pc = "start"
    /\ FFMPEG_PATH = "None"
    /\ workspace = "absent"
    /\ files = {}
    /\ decode_status = "not_run"
    /\ ssim = << >>
    /\ frames_vec = << >>
    /\ pending = {}
    /\ order = << >>
    /\ bad_frames = << >>
    /\ failed = {}
    /\ encode_calls = 0
    /\ output = "none"
    /\ stderr = {}
    /\ stdout = {}
    /\ WorkersIdle
    /\ SsimIdle
    /\ c_pc = [t \in Callers |-> "idle"]
    /\ c_got = [t \in Callers |-> "none"]
    /\ path_guard = {}
    /\ staged = 0
    /\ proc = "running"

\* a thread enters get_ffmpeg_path
PCall(t) ==
    /\ proc = "running"
    /\ c_pc[t] = "idle"
    /\ c_pc' = [c_pc EXCEPT ![t] = "lock"]
    /\ UNCHANGED <<jobVars, workerVars, ssimVars, c_got, path_guard, staged>>
    /\ UNCHANGED proc

\* line 50: FFMPEG_PATH.lock()
PLock(t) ==
    /\ proc = "running"
    /\ c_pc[t] = "lock"
    /\ PathCanLock(path_guard)
    /\ path_guard' = path_guard \cup {t}
    /\ c_pc' = [c_pc EXCEPT ![t] = "locked"]
    /\ UNCHANGED <<jobVars, workerVars, ssimVars, c_got, staged>>
    /\ UNCHANGED proc

\* lines 51-52: the cache is empty, extract_ffmpeg is called
PExtractStart(t) ==
    /\ proc = "running"
    /\ c_pc[t] = "locked"
    /\ FFMPEG_PATH = "None"
    /\ c_pc' = [c_pc EXCEPT ![t] = "extracting"]
    /\ UNCHANGED <<jobVars, workerVars, ssimVars, c_got, path_guard, staged>>
    /\ UNCHANGED proc

\* line 53: extract_ffmpeg returned Ok(path), the cache is written
PExtractOk(t) ==
    /\ proc = "running"
    /\ c_pc[t] = "extracting"
    /\ \E path \in TempPaths : FFMPEG_PATH' = path
    /\ staged' = staged + 1
    /\ c_pc' = [c_pc EXCEPT ![t] = "locked"]
    /\ UNCHANGED <<prog, pc, workspace, files, decode_status, ssim, frames_vec,
                   pending, order, bad_frames, failed, encode_calls, output, stderr,
                   stdout>>
    /\ UNCHANGED <<workerVars, ssimVars, c_got, path_guard, proc>>

\* lines 54-57: extract_ffmpeg returned Err, the process exits
PExtractFail(t) ==
    /\ proc = "running"
    /\ c_pc[t] = "extracting"
    /\ stderr' = stderr \cup {"Failed to extract ffmpeg"}
    /\ proc' = "exited"
    /\ UNCHANGED <<prog, pc, FFMPEG_PATH, workspace, files, decode_status, ssim,
                   frames_vec, pending, order, bad_frames, failed, encode_calls,
                   output, stdout>>
    /\ UNCHANGED <<workerVars, ssimVars, c_pc, c_got, path_guard, staged>>

\* line 60: the cache is filled: its clone is returned and the guard dropped
PReturn(t) ==
    /\ proc = "running"
    /\ c_pc[t] = "locked"
    /\ FFMPEG_PATH # "None"
    /\ c_got' = [c_got EXCEPT ![t] = FFMPEG_PATH]
    /\ path_guard' = path_guard \ {t}
    /\ c_pc' = [c_pc EXCEPT ![t] = "done"]
    /\ UNCHANGED <<jobVars, workerVars, ssimVars, staged, proc>>

PathNext ==
    \/ \E t \in Callers : PCall(t)
    \/ \E t \in Callers : PLock(t)
    \/ \E t \in Callers : PExtractStart(t)
    \/ \E t \in Callers : PExtractOk(t)
    \/ \E t \in Callers : PExtractFail(t)
    \/ \E t \in Callers : PReturn(t)

SpecPath == PathInit /\ [][PathNext]_vars

(* ---- C13 ---- *)
\* C13: among any number of concurrent callers of get_ffmpeg_path the tool
\* is staged at most once per process, no two callers stage at the same
\* time, and every caller that returns gets the one cached path.
C13_StagedOnce ==
    /\ staged <= 1
    /\ Cardinality({t \in DOMAIN c_pc : c_pc[t] = "extracting"}) <= 1
    /\ \A t \in DOMAIN c_pc :
         c_pc[t] = "done" => (c_got[t] \in TempPaths /\ c_got[t] = FFMPEG_PATH)
    /\ \A t, u \in DOMAIN c_pc :
         (c_pc[t] = "done" /\ c_pc[u] = "done") => c_got[t] = c_got[u]

\* every caller has returned, one of them having staged the tool while
\* another was waiting for the mutex
C13_Witness ==
    /\ DOMAIN c_pc # {}
    /\ \A t \in DOMAIN c_pc : c_pc[t] = "done"
    /\ staged = 1


(***************************************************************************)
(* The f32 arithmetic of compare_images_ssim_crate (lines 203-236).        *)
(* A finite f32 that is not negative is the pair <<m, e>> of value         *)
(* m * 2^e, with m = 0 and e = 0, or 2^23 <= m < 2^24; every operation     *)
(* rounds to nearest, ties to even, as IEEE 754 binary32 does.  The values *)
(* of one call lie between 2^-14 and 2^40, so no subnormal, infinity or    *)
(* NaN arises, and nothing is negative: p - mu is p - p.                   *)
(***************************************************************************)
RECURSIVE Pow2Rec(_)
Pow2Rec(n) == IF n = 0 THEN 1 ELSE 2 * Pow2Rec(n - 1)

\* the powers of two that fit a 32-bit integer, computed once
Pow2Tab == [n \in 0 .. 30 |-> Pow2Rec(n)]

Pow2(n) == Pow2Tab[n]

\* the number of bits of an f32 significand
Precision == 24

\* 0.0
Zero == <<0, 0>>

\* the significand q with the discarded part lo (half being half a unit of
\* the last place) rounded to nearest, ties to even
Round(q, lo, half, e) ==
    LET up == lo > half \/ (lo = half /\ q % 2 = 1)
        m == IF up THEN q + 1 ELSE q
    IN IF m = Pow2(Precision) THEN <<Pow2(Precision - 1), e + 1>> ELSE <<m, e>>

RECURSIVE Normalize(_, _)
Normalize(m, e) == IF m >= Pow2(Precision - 1) THEN <<m, e>> ELSE Normalize(2 * m, e - 1)

\* `n as f32` for an integer 0 <= n < 2^24: exact
FromInt(n) == IF n = 0 THEN Zero ELSE Normalize(n, 0)

\* 1.0
One == FromInt(1)

\* 2.0
Two == FromInt(2)

\* the largest value of a u8 luma sample (to_luma8, lines 194-195)
MaxLuma == 255

\* `p as f32` for the u8 lumas, computed once
U8AsF32 == [n \in 0 .. MaxLuma |-> FromInt(n)]

\* a + b: the smaller operand is shifted with three extra bits and a sticky
\* bit, the sum rounded once
FAdd(a, b) ==
    IF a[1] = 0 THEN b
    ELSE IF b[1] = 0 THEN a
    ELSE LET hi == IF a[2] >= b[2] THEN a ELSE b
             lo == IF a[2] >= b[2] THEN b ELSE a
             d == hi[2] - lo[2]
             sh == IF d > Precision + 3 THEN Precision + 3 ELSE d
             B == (lo[1] * 8) \div Pow2(sh)
             st == IF (lo[1] * 8) % Pow2(sh) # 0 THEN 1 ELSE 0
             T == hi[1] * 8 + B
         IN IF T >= Pow2(Precision + 3)
            THEN Round(T \div 16, 2 * (T % 16) + st, 16, hi[2] + 1)
            ELSE Round(T \div 8, 2 * (T % 8) + st, 8, hi[2])

\* a * b: the 48-bit product of the significands from 12-bit halves,
\* rounded once
FMul(a, b) ==
    IF a[1] = 0 \/ b[1] = 0 THEN Zero
    ELSE LET h == Pow2(Precision \div 2)
             ah == a[1] \div h
             al == a[1] % h
             bh == b[1] \div h
             bl == b[1] % h
             mid == ah * bl + al * bh
             lofull == (mid % h) * h + al * bl
             hi == ah * bh + (mid \div h) + (lofull \div Pow2(Precision))
             lo == lofull % Pow2(Precision)
         IN IF hi >= Pow2(Precision - 1)
            THEN Round(hi, lo, Pow2(Precision - 1), a[2] + b[2] + Precision)
            ELSE Round(2 * hi + (lo \div Pow2(Precision - 1)), lo % Pow2(Precision - 1),
                       Pow2(Precision - 2), a[2] + b[2] + Precision - 1)

\* k further quotient bits of r / d by long division: <<quotient, remainder>>
RECURSIVE LongDiv(_, _, _, _)
LongDiv(r, d, q, k) ==
    IF k = 0 THEN <<q, r>>
    ELSE IF 2 * r >= d THEN LongDiv(2 * r - d, d, 2 * q + 1, k - 1)
    ELSE LongDiv(2 * r, d, 2 * q, k - 1)

\* a / b for b # 0: 24 quotient bits, rounded once by the remainder
FDiv(a, b) ==
    IF a[1] = 0 THEN Zero
    ELSE LET big == a[1] >= b[1]
             res == IF big THEN LongDiv(a[1] - b[1], b[1], 1, Precision - 1)
                    ELSE LongDiv(a[1], b[1], 0, Precision)
             e == IF big THEN a[2] - b[2] - (Precision - 1) ELSE a[2] - b[2] - Precision
         IN Round(res[1], 2 * res[2], b[1], e)

\* a < b
FLess(a, b) ==
    IF b[1] = 0 THEN FALSE
    ELSE IF a[1] = 0 THEN TRUE
    ELSE a[2] < b[2] \/ (a[2] = b[2] /\ a[1] < b[1])

\* a <= b
FLeq(a, b) == a = b \/ FLess(a, b)

\* line 206: the literal 0.01 is the f32 nearest to 1/100
k1 == FDiv(FromInt(1), FromInt(100))

\* line 207: the literal 0.03 is the f32 nearest to 3/100
k2 == FDiv(FromInt(3), FromInt(100))

\* line 208: 255.0
l == FromInt(MaxLuma)

\* line 209: powi(2) is one multiplication
c1 == FMul(FMul(k1, l), FMul(k1, l))

\* line 210
c2 == FMul(FMul(k2, l), FMul(k2, l))

\* lines 214-229: the term one pixel adds to row_sum, num / den
PixelTerm(px1, px2) ==
    LET p1 == U8AsF32[px1]
        p2 == U8AsF32[px2]
        mu1 == p1
        mu2 == p2
        sigma1_sq == Zero
        sigma2_sq == Zero
        sigma12 == FMul(Zero, Zero)
        num == FMul(FAdd(FMul(FMul(Two, mu1), mu2), c1),
                    FAdd(FMul(Two, sigma12), c2))
        den == FMul(FAdd(FAdd(FMul(mu1, mu1), FMul(mu2, mu2)), c1),
                    FAdd(FAdd(sigma1_sq, sigma2_sq), c2))
    IN FDiv(num, den)

(***************************************************************************)
(* One call of compare_images_ssim_crate, after both images are opened and *)
(* their dimensions found equal (lines 191-201).  The parallel iterator    *)
(* over the rows splits a row range at its middle any number of times,     *)
(* sums every range it does not split from 0.0 in row order, and adds the  *)
(* sums of the two halves of a split range.                                *)
(***************************************************************************)
Height == Len(grey1)

Width == Len(grey1[1])

\* the luma values of the small images: black and white
LumaSamples == {0, MaxLuma}

\* the luma values of the wide images: white and the grey next to it
NearLumas == {MaxLuma - 1, MaxLuma}

\* the row range <<lo, hi>> holds the rows lo <= y < hi
Mid(b) == b[1] + (b[2] - b[1]) \div 2

Left(b) == <<b[1], Mid(b)>>

Right(b) == <<Mid(b), b[2]>>

Root == <<0, Height>>

\* b is a range the splitting of the range r can produce
RECURSIVE InTree(_, _)
InTree(b, r) ==
    \/ b = r
    \/ /\ r[2] - r[1] >= 2
       /\ InTree(b, Left(r)) \/ InTree(b, Right(r))

\* the images scored: every pair of one-pixel images, the one-pixel-wide
\* images of up to MaxRows rows in black and white, and the one-row images
\* of MaxWidth near-white pixels that are constant but for the second image's
\* last pixel
SsimInit ==
    /\ prog = "lib"
    /\ pc = "score"
    /\ FFMPEG_PATH = "Some"
    /\ workspace = "present"
    /\ files = FrameNumbers(2)
    /\ decode_status = "ok"
    /\ ssim = << >>
    /\ frames_vec = <<1, 2>>
    /\ pending = {0}
    /\ order = << >>
    /\ bad_frames = << >>
    /\ failed = {}
    /\ encode_calls = 0
    /\ output = "none"
    /\ stderr = {}
    /\ stdout = {}
    /\ WorkersIdle
    /\ PathIdle
    /\ \/ \E p \in 0 .. MaxLuma, q \in 0 .. MaxLuma :
            grey1 = << <<p>> >> /\ grey2 = << <<q>> >>
       \/ \E h \in 1 .. MaxRows :
            /\ grey1 \in [1 .. h -> {<<p>> : p \in LumaSamples}]
            /\ grey2 \in [1 .. h -> {<<p>> : p \in LumaSamples}]
       \/ \E p \in NearLumas, q \in NearLumas :
            /\ grey1 = << [x \in 1 .. MaxWidth |-> p] >>
            /\ grey2 = << [x \in 1 .. MaxWidth |-> IF x = MaxWidth THEN q ELSE p] >>
    /\ todo = {<<0, Len(grey1)>>}
    /\ cur = << >>
    /\ sums = << >>
    /\ score = Zero
    /\ s_pc = "sum"

\* the iterator splits the row range b, which no worker has begun, at its
\* middle
SSplit(b) ==
    /\ s_pc = "sum"
    /\ b \in todo
    /\ b \notin DOMAIN cur
    /\ b[2] - b[1] >= 2
    /\ todo' = (todo \ {b}) \cup {Left(b), Right(b)}
    /\ UNCHANGED <<jobVars, workerVars, pathVars, grey1, grey2, cur, sums, score, s_pc>>

\* the worker of a range starts at its first row with row_sum = 0.0 (line
\* 212) and a sum of 0.0
Start(b) == [y |-> b[1], x |-> 0, row_sum |-> Zero, acc |-> Zero]

\* lines 213-231: the worker of the range b adds the term of its next pixel
\* to row_sum; at the end of a row the row's sum is added to the sum of the
\* range, at the end of the range that sum is the worker's result
SPixel(b) ==
    /\ s_pc = "sum"
    /\ b \in todo
    /\ LET st == IF b \in DOMAIN cur THEN cur[b] ELSE Start(b)
           rs == FAdd(st.row_sum,
                      PixelTerm(grey1[st.y + 1][st.x + 1], grey2[st.y + 1][st.x + 1]))
           rowEnd == st.x + 1 = Width
           acc == IF rowEnd THEN FAdd(st.acc, rs) ELSE st.acc
       IN IF rowEnd /\ st.y + 1 = b[2]
          THEN /\ todo' = todo \ {b}
               /\ cur' = [c \in DOMAIN cur \ {b} |-> cur[c]]
               /\ sums' = [c \in DOMAIN sums \cup {b} |-> IF c = b THEN acc ELSE sums[c]]
          ELSE /\ cur' = [c \in DOMAIN cur \cup {b} |->
                             IF c = b
                             THEN [y |-> IF rowEnd THEN st.y + 1 ELSE st.y,
                                   x |-> IF rowEnd THEN 0 ELSE st.x + 1,
                                   row_sum |-> IF rowEnd THEN Zero ELSE rs,
                                   acc |-> acc]
                             ELSE cur[c]]
               /\ UNCHANGED <<todo, sums>>
    /\ UNCHANGED <<jobVars, workerVars, pathVars, grey1, grey2, score, s_pc>>

\* line 233: the sums of the two halves of the split range b are added
SJoin(b) ==
    /\ s_pc = "sum"
    /\ InTree(b, Root)
    /\ b[2] - b[1] >= 2
    /\ Left(b) \in DOMAIN sums
    /\ Right(b) \in DOMAIN sums
    /\ sums' = [c \in (DOMAIN sums \ {Left(b), Right(b)}) \cup {b} |->
                   IF c = b THEN FAdd(sums[Left(b)], sums[Right(b)]) ELSE sums[c]]
    /\ UNCHANGED <<jobVars, workerVars, pathVars, grey1, grey2, todo, cur, score, s_pc>>

\* the same with the divisor of one row only
SScore_ByWidth ==
    /\ s_pc = "sum"
    /\ Root \in DOMAIN sums
    /\ score' = FDiv(sums[Root], FromInt(Width))
    /\ s_pc' = "done"
    /\ UNCHANGED <<jobVars, workerVars, pathVars, grey1, grey2, todo, cur, sums>>

\* lines 235-236: ssim_sum / ((width * height) as f32)
SScore ==
    /\ s_pc = "sum"
    /\ Root \in DOMAIN sums
    /\ score' = FDiv(sums[Root], FromInt(Width * Height))
    /\ s_pc' = "done"
    /\ UNCHANGED <<jobVars, workerVars, pathVars, grey1, grey2, todo, cur, sums>>

SsimNext ==
    \/ \E b \in todo : SSplit(b)
    \/ \E b \in todo : SPixel(b)
    \/ \E lo \in 0 .. MaxRows, hi \in 0 .. (MaxRows + 1) : SJoin(<<lo, hi>>)
    \/ SScore

SpecSsim == SsimInit /\ [][SsimNext]_vars

\* lines 212-231: row_sum of the row pair r1, r2 after its first x pixels
RECURSIVE row_sum(_, _, _)
row_sum(r1, r2, x) ==
    IF x = 0 THEN Zero
    ELSE FAdd(row_sum(r1, r2, x - 1), PixelTerm(r1[x], r2[x]))

\* the sequential sum of the row sums of lo <= y < hi, from 0.0
RECURSIVE FoldRows(_, _)
FoldRows(lo, hi) ==
    IF hi = lo THEN Zero
    ELSE FAdd(FoldRows(lo, hi - 1), row_sum(grey1[hi], grey2[hi], Width))

\* the score of the call whose iterator never splits
SequentialScore == FDiv(FoldRows(0, Height), FromInt(Width * Height))

\* the two images have the same luma in every pixel
SameImage == grey1 = grey2

\* the term of every pixel is above 0 and at most 1, and 1 exactly for
\* equal lumas
TermsInRange ==
    \A y \in 1 .. Height : \A x \in 1 .. Width :
        LET t == PixelTerm(grey1[y][x], grey2[y][x])
        IN /\ FLess(Zero, t)
           /\ FLeq(t, One)
           /\ (t = One) <=> (grey1[y][x] = grey2[y][x])

(* ---- C15 ---- *)
\* C15: the score of an image pair does not depend on how the rows are
\* split among the workers: every call returns the score of the call that
\* sums the rows one after the other.
C15_ScoreReproducible ==
    (s_pc = "done" /\ Height > 1) => score = SequentialScore

====
